---- MODULE Spec2Model ----
(***************************************************************************)
(* strava_to_zwo.py: the pipeline that turns a Strava power recording into *)
(* a Zwift structured workout.  resample_ride_data, the smoothing and      *)
(* quantizing stage, get_power_segents, get_intervals, generate_zwo_file   *)
(* and main are modelled from the source.  Power values are Python floats  *)
(* (IEEE-754 binary64); the arithmetic of get_intervals is modelled with   *)
(* its rounding, on non-negative values within the normal range.           *)
(***************************************************************************)
EXTENDS Integers, Sequences, FiniteSets, TLC

(***************************************************************************)
(* Arbitrary-precision naturals: little-endian sequences of limbs below    *)
(* Base, without high zero limbs (zero is the empty sequence).  They carry *)
(* the exact intermediate results that binary64 operations round.          *)
(***************************************************************************)
LimbBits == 14
Base == 2^LimbBits

Min(a, b) == IF a < b THEN a ELSE b
Max(a, b) == IF a > b THEN a ELSE b

RECURSIVE Trim(_)
Trim(a) ==
  IF a = <<>> THEN <<>>
  ELSE IF a[Len(a)] = 0 THEN Trim(SubSeq(a, 1, Len(a) - 1))
  ELSE a

Limb(a, i) == IF i >= 1 /\ i <= Len(a) THEN a[i] ELSE 0

RECURSIVE FromNat(_)
FromNat(n) == IF n = 0 THEN <<>> ELSE <<n % Base>> \o FromNat(n \div Base)

RECURSIVE ToNat(_)
ToNat(a) == IF a = <<>> THEN 0 ELSE a[1] + Base * ToNat(Tail(a))

RECURSIVE BitLenSmall(_)
BitLenSmall(n) == IF n = 0 THEN 0 ELSE 1 + BitLenSmall(n \div 2)

BitLen(a) ==
  IF a = <<>> THEN 0 ELSE (Len(a) - 1) * LimbBits + BitLenSmall(a[Len(a)])

Bit(a, k) == (Limb(a, (k \div LimbBits) + 1) \div 2^(k % LimbBits)) % 2

LowBitsZero(a, k) == \A j \in 0..(k - 1) : Bit(a, j) = 0

Shr(a, s) ==
  LET q == s \div LimbBits
      r == s % LimbBits
      n == Len(a) - q
  IN IF n <= 0 THEN <<>>
     ELSE Trim([j \in 1..n |->
                  (a[j + q] \div 2^r)
                  + (Limb(a, j + q + 1) % 2^r) * 2^(LimbBits - r)])

Shl(a, s) ==
  LET q == s \div LimbBits
      r == s % LimbBits
      n == Len(a) + q + 1
  IN Trim([j \in 1..n |->
             IF j <= q THEN 0
             ELSE (Limb(a, j - q) % 2^(LimbBits - r)) * 2^r
                  + (Limb(a, j - q - 1) \div 2^(LimbBits - r))])

RECURSIVE AddC(_, _, _, _)
AddC(a, b, i, c) ==
  IF i > Len(a) /\ i > Len(b)
  THEN (IF c = 0 THEN <<>> ELSE <<c>>)
  ELSE LET s == Limb(a, i) + Limb(b, i) + c
       IN <<s % Base>> \o AddC(a, b, i + 1, s \div Base)

Add(a, b) == AddC(a, b, 1, 0)

RECURSIVE ColSum(_, _, _, _)
ColSum(a, b, k, i) ==
  IF i > Len(a) THEN 0
  ELSE a[i] * Limb(b, k - i + 1) + ColSum(a, b, k, i + 1)

RECURSIVE Carry(_, _, _, _)
Carry(a, b, k, c) ==
  IF k > Len(a) + Len(b) - 1
  THEN FromNat(c)
  ELSE LET s == ColSum(a, b, k, 1) + c
       IN <<s % Base>> \o Carry(a, b, k + 1, s \div Base)

Mul(a, b) == IF a = <<>> \/ b = <<>> THEN <<>> ELSE Trim(Carry(a, b, 1, 0))

RECURSIVE DivLimbs(_, _, _, _)
DivLimbs(a, b, i, r) ==
  IF i = 0 THEN [q |-> <<>>, r |-> r]
  ELSE LET cur  == r * Base + a[i]
           rest == DivLimbs(a, b, i - 1, cur % b)
       IN [q |-> rest.q \o <<cur \div b>>, r |-> rest.r]

DivSmall(a, b) ==
  LET d == DivLimbs(a, b, Len(a), 0) IN [q |-> Trim(d.q), r |-> d.r]

(***************************************************************************)
(* Non-negative binary64 values: m * 2^e with m of exactly Mantissa bits,  *)
(* or Zero.  Round is round-to-nearest, ties-to-even, of m * 2^e where     *)
(* sticky says that the exact value lies strictly above m * 2^e.           *)
(***************************************************************************)
Mantissa == 53

Zero == [m |-> <<>>, e |-> 0]

Round(m, e, sticky) ==
  LET L == BitLen(m) IN
  IF m = <<>> THEN Zero
  ELSE IF L <= Mantissa
  THEN [m |-> Shl(m, Mantissa - L), e |-> e - (Mantissa - L)]
  ELSE LET s     == L - Mantissa
           q     == Shr(m, s)
           guard == Bit(m, s - 1) = 1
           rest  == sticky \/ ~LowBitsZero(m, s - 1)
           up    == guard /\ (rest \/ Bit(q, 0) = 1)
           q1    == IF up THEN Add(q, <<1>>) ELSE q
       IN IF BitLen(q1) > Mantissa
          THEN [m |-> Shr(q1, 1), e |-> e + s + 1]
          ELSE [m |-> q1, e |-> e + s]

FloatOfInt(n) == Round(FromNat(n), 0, FALSE)

FMul(x, y) ==
  IF x = Zero \/ y = Zero THEN Zero
  ELSE Round(Mul(x.m, y.m), x.e + y.e, FALSE)

FAdd(x, y) ==
  IF x = Zero THEN y
  ELSE IF y = Zero THEN x
  ELSE LET e == Min(x.e, y.e)
       IN Round(Add(Shl(x.m, x.e - e), Shl(y.m, y.e - e)), e, FALSE)

\* float(a)/b for integers a >= 0, b > 0: the correctly rounded quotient.
FDivInt(a, b) ==
  IF a = 0 THEN Zero
  ELSE LET K == Mantissa + 2 + BitLenSmall(b)
           d == DivSmall(Shl(FromNat(a), K), b)
       IN Round(d.q, 0 - K, d.r # 0)

\* int(x): truncation toward zero.
FTrunc(x) ==
  IF x = Zero THEN 0
  ELSE IF x.e >= 0 THEN ToNat(Shl(x.m, x.e))
  ELSE ToNat(Shr(x.m, 0 - x.e))


RECURSIVE LimbsLess(_, _, _)
LimbsLess(a, b, k) ==
  IF k = 0 THEN FALSE
  ELSE IF a[k] # b[k] THEN a[k] < b[k]
  ELSE LimbsLess(a, b, k - 1)

\* x < y on the values above (mantissas of equal length).
FLess(x, y) ==
  IF y = Zero THEN FALSE
  ELSE IF x = Zero THEN TRUE
  ELSE IF x.e # y.e THEN x.e < y.e
  ELSE LimbsLess(x.m, y.m, Len(x.m))

FMax(x, y) == IF FLess(x, y) THEN y ELSE x

(***************************************************************************)
(* Program state.  pc is the position of the run; i, dur, last_p and       *)
(* intervals are the locals of get_intervals, whose loop is taken one      *)
(* iteration at a time.  zwo is the content of the output file on disk     *)
(* (NoFile before it is opened) and fopen says that its handle is open.    *)
(***************************************************************************)
VARIABLES pc, ride, ftp, new_p, sm_p, q_p, segments, i, dur, last_p,
          intervals, zwo, fopen

vars == <<pc, ride, ftp, new_p, sm_p, q_p, segments, i, dur, last_p,
          intervals, zwo, fopen>>

NoRide == [time |-> <<>>, watts |-> <<>>]
NoFile == <<"absent">>

min_duration == 30

(***************************************************************************)
(* get_power_segents: the scan for i in range(1, len(q_p)), then the       *)
(* segment closed after it.  start and i are the 0-based indices of the    *)
(* code; q_p[i] of the code is q[i + 1] here.  The samples are Python     *)
(* floats already, so float(this_val) is this_val.                         *)
(***************************************************************************)
RunDuration(k, start) == k - start

LastDurationWhole(n, start) == n - start
LastDuration(n, start) == n - 1 - start

RECURSIVE SegScan(_, _, _, _, _)
SegScan(q, k, start, this_val, segs) ==
  IF k > Len(q) - 1
  THEN Append(segs, <<LastDuration(Len(q), start), this_val>>)
  ELSE IF q[k + 1] # this_val
  THEN SegScan(q, k + 1, k, q[k + 1],
               Append(segs, <<RunDuration(k, start), this_val>>))
  ELSE SegScan(q, k + 1, start, this_val, segs)

get_power_segents(q) == SegScan(q, 1, 0, q[1], <<>>)

(***************************************************************************)
(* get_intervals: the test of line 122 and the running weighted average    *)
(* of lines 123-124 and 127-128, evaluated in binary64 in the order the    *)
(* expression is written.                                                  *)
(***************************************************************************)
ShortRunSum(du, d) == du + d < min_duration
ShortRunInverted(du, d) == Max(du, d) >= min_duration
ShortRun(du, d) == Max(du, d) < min_duration

WeightedMean(du, lp, d, p) ==
  FAdd(FMul(FDivInt(du, du + d), lp), FMul(FDivInt(d, du + d), p))

InLoop == pc = "intervals" /\ i <= Len(segments)

Segment ==
  /\ pc = "segment"
  /\ q_p # <<>>
  /\ segments' = get_power_segents(q_p)
  /\ pc' = "intervals"
  /\ i' = 1
  /\ dur' = 0
  /\ last_p' = Zero
  /\ intervals' = <<>>
  /\ UNCHANGED <<ride, ftp, new_p, sm_p, q_p, zwo, fopen>>

Accumulate ==
  /\ InLoop
  /\ dur + segments[i][1] # 0
  /\ ShortRun(dur, segments[i][1])
  /\ last_p' = WeightedMean(dur, last_p, segments[i][1], segments[i][2])
  /\ dur' = dur + segments[i][1]
  /\ i' = i + 1
  /\ UNCHANGED <<pc, ride, ftp, new_p, sm_p, q_p, segments, intervals, zwo,
                 fopen>>

Emit ==
  /\ InLoop
  /\ dur + segments[i][1] # 0
  /\ ~ShortRun(dur, segments[i][1])
  /\ intervals' =
       Append(intervals,
              <<dur + segments[i][1],
                FTrunc(WeightedMean(dur, last_p, segments[i][1],
                                    segments[i][2]))>>)
  /\ dur' = 0
  /\ last_p' = Zero
  /\ i' = i + 1
  /\ UNCHANGED <<pc, ride, ftp, new_p, sm_p, q_p, segments, zwo, fopen>>

\* float(dur)/(dur+segments[i][0]) with a zero denominator raises.
DivideByZero ==
  /\ InLoop
  /\ dur + segments[i][1] = 0
  /\ pc' = "ZeroDivisionError"
  /\ UNCHANGED <<ride, ftp, new_p, sm_p, q_p, segments, i, dur, last_p,
                 intervals, zwo, fopen>>

Return ==
  /\ pc = "intervals"
  /\ i > Len(segments)
  /\ pc' = "returned"
  /\ UNCHANGED <<ride, ftp, new_p, sm_p, q_p, segments, i, dur, last_p,
                 intervals, zwo, fopen>>

(***************************************************************************)
(* The segmenter and the merger on their own: q_p ranges over the series   *)
(* made of at most MaxRuns runs of a level of PowerLevels, each run short  *)
(* (1..MaxShort samples) or within Slack of min_duration.                  *)
(***************************************************************************)
MaxRuns == 3
MaxShort == 1
Slack == 1

PowerLevels == {100, 160}
Levels == {FloatOfInt(w) : w \in PowerLevels}
RunLens == (1..MaxShort) \cup ((min_duration - Slack)..(min_duration + Slack))

Rep(v, n) == [j \in 1..n |-> v]

RECURSIVE SeriesOf(_)
SeriesOf(k) ==
  IF k = 0 THEN {<<>>}
  ELSE LET prev == SeriesOf(k - 1)
       IN prev \cup {s \o Rep(v, n) : s \in prev, v \in Levels, n \in RunLens}

Series == SeriesOf(MaxRuns) \ {<<>>}

InitCore ==
  /\ pc = "segment"
  /\ q_p \in Series
  /\ ride = NoRide
  /\ ftp = Zero
  /\ new_p = <<>>
  /\ sm_p = <<>>
  /\ segments = <<>>
  /\ i = 1
  /\ dur = 0
  /\ last_p = Zero
  /\ intervals = <<>>
  /\ zwo = NoFile
  /\ fopen = FALSE

NextCore == Segment \/ Accumulate \/ Emit \/ DivideByZero \/ Return

SpecCore == InitCore /\ [][NextCore]_vars


(***************************************************************************)
(* Properties of the segmenter and the merger, checked under SpecCore.     *)
(***************************************************************************)
SegmentsReady == pc \in {"intervals", "returned", "ZeroDivisionError"}

RECURSIVE SumDur(_)
SumDur(s) == IF s = <<>> THEN 0 ELSE s[1][1] + SumDur(Tail(s))

RECURSIVE Expand(_)
Expand(s) == IF s = <<>> THEN <<>> ELSE Rep(s[1][2], s[1][1]) \o Expand(Tail(s))

\* The ways to cut the segments into as many consecutive groups as there
\* are intervals: c[k] is the last segment of group k.
Cuts ==
  {c \in [1..Len(intervals) -> 1..Len(segments)] :
     \A k \in 1..(Len(intervals) - 1) : c[k] < c[k + 1]}

GroupOf(c, k) == (IF k = 1 THEN 1 ELSE c[k - 1] + 1)..c[k]

RECURSIVE SumOver(_, _)
SumOver(S, f) ==
  IF S = {} THEN 0
  ELSE LET x == CHOOSE y \in S : TRUE IN f[x] + SumOver(S \ {x}, f)

GroupDur(c, k) ==
  SumOver(GroupOf(c, k), [j \in 1..Len(segments) |-> segments[j][1]])

\* The levels of PowerLevels are integers, so FTrunc is their exact value.
GroupEnergy(c, k) ==
  SumOver(GroupOf(c, k),
          [j \in 1..Len(segments) |-> segments[j][1] * FTrunc(segments[j][2])])

\* C1: every interval of the returned list has an integer duration of at
\* least min_duration and a non-negative integer power, and the intervals
\* are built from consecutive groups of segments, in the segments' order.
C1_IntervalsWellFormed ==
  pc = "returned" =>
    /\ \A k \in 1..Len(intervals) :
         /\ intervals[k][1] \in Nat
         /\ intervals[k][1] >= min_duration
         /\ intervals[k][2] \in Nat
    /\ \E c \in Cuts :
         \A k \in 1..Len(intervals) : intervals[k][1] = GroupDur(c, k)

C1_Witness ==
  /\ pc = "returned"
  /\ Len(intervals) >= 2
  /\ Len(segments) > Len(intervals)

\* C2: the segment durations sum to len(q_p) - 1, and the segments expanded
\* in order are the first len(q_p) - 1 samples of q_p.
C2_SegmentsCoverAllButLast ==
  SegmentsReady =>
    /\ SumDur(segments) = Len(q_p) - 1
    /\ Expand(segments) = SubSeq(q_p, 1, Len(q_p) - 1)

C2_Witness ==
  /\ SegmentsReady
  /\ Len(segments) >= 2
  /\ segments[Len(segments)][1] >= 1

\* C3: every segment, the final one included, has a duration of at least 1.
C3_DurationsPositive ==
  SegmentsReady => \A k \in 1..Len(segments) : segments[k][1] >= 1

LoopStep == InLoop /\ i' = i + 1

Emitted ==
  /\ Len(intervals') = Len(intervals) + 1
  /\ dur' = 0
  /\ last_p' = Zero

\* C8 as stated: whenever dur + d_i reaches min_duration an interval is
\* appended at that step and the accumulator reset, so the accumulator
\* carried into the next step has dur < min_duration.
C8_EmitWhenSumReaches ==
  [][LoopStep =>
       /\ (dur + segments[i][1] >= min_duration => Emitted)
       /\ dur' < min_duration]_vars

\* C8 amended: an interval is appended and the accumulator reset exactly at
\* the steps where max(dur, d_i) >= min_duration; at the other steps the
\* segment is folded in and carried, and the accumulator carried into the
\* next step has dur <= 2 * (min_duration - 1).
C8_EmitWhenMaxReaches ==
  [][LoopStep =>
       /\ IF Max(dur, segments[i][1]) >= min_duration
          THEN Emitted
          ELSE intervals' = intervals /\ dur' = dur + segments[i][1]
       /\ dur' <= 2 * (min_duration - 1)]_vars

C8_Witness ==
  /\ pc = "intervals"
  /\ dur >= min_duration
  /\ Len(intervals) >= 1

Floor(n, d) == n \div d

\* C9: each interval's duration is the sum of the durations of its group
\* and its power is floor(sum(d_i * p_i) / sum(d_i)), between the smallest
\* and the largest power of the group.
C9_PowerIsExactMean ==
  SegmentsReady =>
    \E c \in Cuts :
      \A k \in 1..Len(intervals) :
        /\ intervals[k][1] = GroupDur(c, k)
        /\ intervals[k][2] = Floor(GroupEnergy(c, k), GroupDur(c, k))
        /\ \E j \in GroupOf(c, k) : FTrunc(segments[j][2]) <= intervals[k][2]
        /\ \E j \in GroupOf(c, k) : intervals[k][2] <= FTrunc(segments[j][2])

\* C10: get_intervals never divides by zero on the segmenter's output.
C10_NoDivisionByZero == pc # "ZeroDivisionError"


(***************************************************************************)
(* load_ride_data and resample_ride_data.  A ride is the parsed JSON       *)
(* object: the lists time and watts, where Null stands for a JSON null.    *)
(* interp1d sorts the knots by time, refuses fewer than two of them, and   *)
(* (bounds_error) refuses to evaluate below the first knot.  A sample is   *)
(* the binary64 nearest to the interpolant's exact value.                  *)
(***************************************************************************)
Null == -1
min_p == 100

Range(s) == {s[j] : j \in DOMAIN s}

Coerce(x) == IF x = Null THEN 0 ELSE x

load_ride_data(raw) ==
  [time  |-> [j \in DOMAIN raw.time |-> Coerce(raw.time[j])],
   watts |-> [j \in DOMAIN raw.watts |-> Coerce(raw.watts[j])]]

SeqMax(s) == CHOOSE m \in Range(s) : \A x \in Range(s) : x <= m
SeqMin(s) == CHOOSE m \in Range(s) : \A x \in Range(s) : m <= x

\* The knots <<time, watts>> in ascending order of time (times distinct).
Knots(r) ==
  LET n == Len(r.time)
      rank(j) == 1 + Cardinality({l \in 1..n : r.time[l] < r.time[j]})
  IN [k \in 1..n |->
        LET j == CHOOSE j \in 1..n : rank(j) = k
        IN <<r.time[j], r.watts[j]>>]

SampleCountInclusive(max_t) == max_t + 1
SampleCount(max_t) == max_t

InterpRaises(r) ==
  IF Len(r.time) # Len(r.watts) \/ Len(r.time) < 2 THEN TRUE
  ELSE SampleCount(SeqMax(r.time)) >= 1 /\ SeqMin(r.time) > 0

Interp(kn, x) ==
  LET n  == Len(kn)
      at == {k \in 1..n : kn[k][1] >= x}
      hi == Max(2, CHOOSE k \in at : \A l \in at : k <= l)
      lo == hi - 1
      dx == kn[hi][1] - kn[lo][1]
  IN FDivInt(kn[lo][2] * dx + (kn[hi][2] - kn[lo][2]) * (x - kn[lo][1]), dx)

resample_ride_data(r) ==
  LET new_t == 1..SampleCount(SeqMax(r.time))
      interp_watt(kn) ==
        [j \in new_t |-> FMax(FloatOfInt(min_p), Interp(kn, j - 1))]
  IN CHOOSE y \in {interp_watt(kn) : kn \in {Knots(r)}} : TRUE

(***************************************************************************)
(* medfilt(new_p, 21): the median of the window around each sample, the    *)
(* series padded with zeros on both sides.                                 *)
(***************************************************************************)
kernel_size == 21

medfilt(x) ==
  LET h == kernel_size \div 2
      win(j) == [o \in 0..(2 * h) |->
                   IF j + o - h >= 1 /\ j + o - h <= Len(x)
                   THEN x[j + o - h] ELSE Zero]
      med(w) == CHOOSE v \in Range(w) :
                  /\ Cardinality({o \in DOMAIN w : FLess(w[o], v)}) <= h
                  /\ Cardinality({o \in DOMAIN w : ~FLess(v, w[o])}) >= h + 1
  IN [j \in 1..Len(x) |-> med(win(j))]

(***************************************************************************)
(* get_quantized_power.  KMeans refuses fewer samples than clusters.  On   *)
(* a series with at most n_clusters distinct values every distinct value   *)
(* is a centre, and each sample is replaced by its own value; the rides    *)
(* of the model are those with such a smoothed series.                     *)
(***************************************************************************)
n_clusters == 7

KMeansRaises(sm) == Len(sm) < n_clusters

get_quantized_power(sm) == [j \in 1..Len(sm) |-> sm[j]]

(***************************************************************************)
(* main, lines 183-196.                                                    *)
(***************************************************************************)
ResampleFails ==
  /\ pc = "start"
  /\ InterpRaises(load_ride_data(ride))
  /\ pc' = "exited"
  /\ UNCHANGED <<ride, ftp, new_p, sm_p, q_p, segments, i, dur, last_p,
                 intervals, zwo, fopen>>

Resample ==
  /\ pc = "start"
  /\ ~InterpRaises(load_ride_data(ride))
  /\ new_p' = resample_ride_data(load_ride_data(ride))
  /\ pc' = "smooth"
  /\ UNCHANGED <<ride, ftp, sm_p, q_p, segments, i, dur, last_p, intervals,
                 zwo, fopen>>

Smooth ==
  /\ pc = "smooth"
  /\ sm_p' = medfilt(new_p)
  /\ pc' = "quantize"
  /\ UNCHANGED <<ride, ftp, new_p, q_p, segments, i, dur, last_p, intervals,
                 zwo, fopen>>

QuantizeFails ==
  /\ pc = "quantize"
  /\ KMeansRaises(sm_p)
  /\ pc' = "ValueError"
  /\ UNCHANGED <<ride, ftp, new_p, sm_p, q_p, segments, i, dur, last_p,
                 intervals, zwo, fopen>>

Quantize ==
  /\ pc = "quantize"
  /\ ~KMeansRaises(sm_p)
  /\ q_p' = get_quantized_power(sm_p)
  /\ pc' = "segment"
  /\ UNCHANGED <<ride, ftp, new_p, sm_p, segments, i, dur, last_p, intervals,
                 zwo, fopen>>

(***************************************************************************)
(* main, lines 203-216, and generate_zwo_file.  The --ftp option is        *)
(* absent ("") or one of the strings of FtpArgs; float() of "abc" raises   *)
(* ValueError.  zwo holds what has been written: the three header lines,   *)
(* one <<Duration, Power>> per SteadyState element, where Power is the     *)
(* value float(power)/ftp handed to the format, and the two closing lines. *)
(***************************************************************************)
default_ftp == 300

FtpArgs == {"", "abc", "0", "250"}

ParseFtp(arg) ==
  IF arg = "" \/ arg = "abc" THEN FloatOfInt(default_ftp)
  ELSE IF arg = "0" THEN Zero
  ELSE FloatOfInt(250)

Header == <<"<?xml version=\"1.0\" ?>", "<workout_file>", "  <workout>">>
Footer == <<"  </workout>", "</workout_file>">>

\* float(power)/ftp for the integer-valued ftp of FtpArgs.
PowerFraction(power, f) == FDivInt(power, FTrunc(f))

SteadyState(this_int, f) == <<this_int[1], PowerFraction(this_int[2], f)>>

\* The intervals written so far.
Written == Len(zwo) - Len(Header)

ReadFtp ==
  /\ pc = "returned"
  /\ \E arg \in FtpArgs : ftp' = ParseFtp(arg)
  /\ pc' = "generate"
  /\ UNCHANGED <<ride, new_p, sm_p, q_p, segments, i, dur, last_p, intervals,
                 zwo, fopen>>

OpenZwo ==
  /\ pc = "generate"
  /\ fopen' = TRUE
  /\ zwo' = Header
  /\ pc' = "writing"
  /\ UNCHANGED <<ride, ftp, new_p, sm_p, q_p, segments, i, dur, last_p,
                 intervals>>

WriteInterval ==
  /\ pc = "writing"
  /\ Written < Len(intervals)
  /\ ftp # Zero
  /\ zwo' = Append(zwo, SteadyState(intervals[Written + 1], ftp))
  /\ UNCHANGED <<pc, ride, ftp, new_p, sm_p, q_p, segments, i, dur, last_p,
                 intervals, fopen>>

\* float(this_int[1])/ftp raises; nothing closes f.
WriteFails ==
  /\ pc = "writing"
  /\ Written < Len(intervals)
  /\ ftp = Zero
  /\ pc' = "ZeroDivisionError in generate_zwo_file"
  /\ UNCHANGED <<ride, ftp, new_p, sm_p, q_p, segments, i, dur, last_p,
                 intervals, zwo, fopen>>

CloseZwo ==
  /\ pc = "writing"
  /\ Written = Len(intervals)
  /\ zwo' = zwo \o Footer
  /\ fopen' = FALSE
  /\ pc' = "done"
  /\ UNCHANGED <<ride, ftp, new_p, sm_p, q_p, segments, i, dur, last_p,
                 intervals>>


(***************************************************************************)
(* The rides of the model.  Sparse rides: at most MaxPts knots at distinct *)
(* times of TimeVals, in any order, with watts of WattVals.  Dense rides:  *)
(* time = [0, 1, ..., N-1] with constant watts (N just above min_duration, *)
(* or ScenarioLen), with one step in the middle, or with one low sample    *)
(* SpikeBack seconds before the end.  Repeated time values are left out.   *)
(***************************************************************************)
MaxPts == 2
MaxExtra == 2
ScenarioLen == 60
SpikeBack == 5

TimeVals == {0, 1, 3, 8, min_duration + 3}
WattVals == {Null, 90, 150, 300}
DenseWatts == {150, 300}

DistinctSeqs(S, n) ==
  {t \in [1..n -> S] : \A a, b \in 1..n : a # b => t[a] # t[b]}

SparseRides ==
  UNION {{[time |-> t, watts |-> w] :
            t \in DistinctSeqs(TimeVals, n), w \in [1..n -> WattVals]} :
         n \in 0..MaxPts}

DenseRide(N, K, p1, p2) ==
  [time  |-> [j \in 1..N |-> j - 1],
   watts |-> [j \in 1..N |-> IF j <= K THEN p1 ELSE p2]]

SpikeRide(N, K, p1, p2) ==
  [time  |-> [j \in 1..N |-> j - 1],
   watts |-> [j \in 1..N |-> IF j = K THEN p2 ELSE p1]]

DenseLens ==
  ((min_duration + 1)..(min_duration + 1 + MaxExtra)) \cup {ScenarioLen}

ConstantRides == {DenseRide(N, N, p, p) : N \in DenseLens, p \in DenseWatts}

StepRides ==
  {DenseRide(2 * (min_duration + 3), min_duration + 3, p1, p2) :
     p1 \in DenseWatts, p2 \in DenseWatts}

SpikeRides ==
  {SpikeRide(N, N - SpikeBack, p1, p2) :
     N \in DenseLens, p1 \in DenseWatts, p2 \in DenseWatts}

Rides == SparseRides \cup ConstantRides \cup StepRides \cup SpikeRides

Quantizable(r) ==
  IF InterpRaises(load_ride_data(r)) THEN TRUE
  ELSE \A y \in {resample_ride_data(load_ride_data(r))} :
         Cardinality(Range(medfilt(y))) <= n_clusters

InitRide(R) ==
  /\ pc = "start"
  /\ ride \in R
  /\ ftp = Zero
  /\ new_p = <<>>
  /\ sm_p = <<>>
  /\ q_p = <<>>
  /\ segments = <<>>
  /\ i = 1
  /\ dur = 0
  /\ last_p = Zero
  /\ intervals = <<>>
  /\ zwo = NoFile
  /\ fopen = FALSE

\* resample_ride_data on its own, on every ride.
InitResample == InitRide(Rides)

NextResample == ResampleFails \/ Resample

SpecResample == InitResample /\ [][NextResample]_vars

\* main, on the rides whose smoothed series has at most n_clusters values.
Init == InitRide({r \in Rides : Quantizable(r)})

Next ==
  \/ ResampleFails
  \/ Resample
  \/ Smooth
  \/ QuantizeFails
  \/ Quantize
  \/ Segment
  \/ Accumulate
  \/ Emit
  \/ DivideByZero
  \/ Return
  \/ ReadFtp
  \/ OpenZwo
  \/ WriteInterval
  \/ WriteFails
  \/ CloseZwo

Spec == Init /\ [][Next]_vars


(***************************************************************************)
(* Properties of the resampler (SpecResample) and of main (Spec).          *)
(***************************************************************************)
StrictlyIncreasing(t) == \A a \in 1..(Len(t) - 1) : t[a] < t[a + 1]

\* A valid input: at least two strictly increasing non-negative times and
\* as many non-negative watts.
Valid(r) ==
  /\ Len(r.time) >= 2
  /\ Len(r.watts) = Len(r.time)
  /\ StrictlyIncreasing(r.time)
  /\ \A j \in 1..Len(r.time) : r.time[j] >= 0 /\ r.watts[j] >= 0

Floored == \A j \in 1..Len(new_p) : ~FLess(new_p[j], FloatOfInt(min_p))

\* C5 as stated: on every valid input resample_ride_data returns max(time)
\* samples, each at least min_p.
C5_ResampleLength ==
  (pc # "start" /\ Valid(load_ride_data(ride))) =>
    /\ pc = "smooth"
    /\ Len(new_p) = SeqMax(load_ride_data(ride).time)
    /\ Floored

\* C5 amended: on every valid input whose first time is 0,
\* resample_ride_data returns max(time) samples, each at least min_p, the
\* sample at a knot being the knot's watts floored at min_p; on a valid
\* input that starts later the interpolant raises and nothing is returned.
C5_ResampleLengthFromZero ==
  LET r == load_ride_data(ride) IN
  (pc # "start" /\ Valid(r)) =>
    IF r.time[1] = 0
    THEN /\ pc = "smooth"
         /\ Len(new_p) = SeqMax(r.time)
         /\ Floored
         /\ \A k \in 1..(Len(r.time) - 1) :
              new_p[r.time[k] + 1] =
                FMax(FloatOfInt(min_p), FloatOfInt(r.watts[k]))
    ELSE pc = "exited"

C5_Witness ==
  /\ pc = "smooth"
  /\ Valid(load_ride_data(ride))
  /\ Len(new_p) > Len(ride.time)
  /\ \E j \in 1..Len(new_p) : new_p[j] = FloatOfInt(min_p)
  /\ \E j \in 1..Len(new_p) : FLess(FloatOfInt(min_p), new_p[j])

\* time = [0, 1, ..., N-1] and watts constant at p >= min_p.
ConstantAt(r, p) ==
  /\ Len(r.time) >= 1
  /\ r.time = [j \in 1..Len(r.time) |-> j - 1]
  /\ r.watts = [j \in 1..Len(r.time) |-> p]
  /\ p >= min_p

\* C4: on such an input, where smoothing and quantizing leave the series
\* constant, the pipeline yields exactly one interval, of duration N-1 or
\* N and of power p.
C4_ConstantRideOneInterval ==
  \A p \in DenseWatts :
    (/\ pc = "returned"
     /\ ConstantAt(ride, p)
     /\ q_p = Rep(FloatOfInt(p), Len(new_p))) =>
      /\ Len(intervals) = 1
      /\ intervals[1][1] \in {Len(ride.time) - 1, Len(ride.time)}
      /\ intervals[1][2] = p

RunEnded ==
  pc \in {"exited", "ValueError", "ZeroDivisionError",
          "ZeroDivisionError in generate_zwo_file", "done"}

\* The header, one SteadyState element per interval, and the closing tags.
CompleteDocument ==
  /\ Len(zwo) = Len(Header) + Len(intervals) + Len(Footer)
  /\ SubSeq(zwo, 1, Len(Header)) = Header
  /\ SubSeq(zwo, Len(zwo) - Len(Footer) + 1, Len(zwo)) = Footer
  /\ \A k \in 1..Len(intervals) :
       zwo[Len(Header) + k] = SteadyState(intervals[k], ftp)

\* C6: when the run has ended the output file is either not written at
\* all or the complete document, and its handle has been released.
C6_NoPartialOutput ==
  RunEnded => (zwo = NoFile \/ CompleteDocument) /\ ~fopen

\* C7: when time is not strictly increasing, or holds fewer than two
\* distinct points, the resampling fails: the run ends there, without an
\* interval sequence and without an output file.
C7_InvalidTimeRejected ==
  LET r == load_ride_data(ride) IN
  (~StrictlyIncreasing(r.time) \/ Cardinality(Range(r.time)) < 2) =>
    /\ pc \in {"start", "exited"}
    /\ intervals = <<>>
    /\ zwo = NoFile

====
